---- MODULE Spec2Model ----
(***************************************************************************)
(* Model of the scam-bot webhook pipeline:                                 *)
(*   api/line_webhook.py            LineWebhookHandler (dispatcher)        *)
(*   services/conversation_service.py  ConversationService (orchestrator) *)
(*   clients/line_client.py         LineClient.reply_message               *)
(* Strings of the program are modelled as sequences of segments; a         *)
(* confidence c is the integer 1000*c (so "{c*100:.1f}%" is exact).        *)
(***************************************************************************)
EXTENDS Integers, Sequences, FiniteSets, TLC

VARIABLES
    cache,      \* LineWebhookHandler._processed_event_ids (class-level set)
    history,    \* storage_service: user id -> list of message texts
    replied,    \* ghost: the watched event ids for which a reply call was made so far
    appended,   \* ghost: the watched event ids for which a history append was made so far
    pc,         \* position of handle_webhook: "idle" | "loop" | "event" | "after"
    batchLen,   \* len(events) of the body being handled
    idx,        \* number of events of the batch whose _process_event has returned normally
    response,   \* what the last handle_webhook gave the endpoint: [body, status, cause]
    cur,        \* the event the for-loop is at (line 95)
    out,        \* ghost: what _process_event did with cur
    dr,         \* input of _generate_response (composition specification)
    composed,   \* result of _generate_response (composition specification)
    tpc,        \* per-thread position in _process_event (threaded specification)
    tev,        \* per-thread event (threaded specification)
    tout,       \* ghost, per thread: whether it invoked the orchestrator, and its replies
    client,     \* the analysis_client handed to DetectionService.__init__
    strategy,   \* DetectionService.strategy
    analysis,   \* ghost: what the last analyze_message call did
    unformatted, \* arguments of format_conversation: the messages and the user id
    formatted,  \* what the formatter made of them: the parsed entries and both documents
    message_text,   \* argument of LocalDetectionStrategy._keyword_analysis
    keyword_result, \* its result
    events,     \* the events array of the body (batch specification)
    log         \* ghost: the side effects of the batch, in the order they happened

\* the state of the detection layer, the formatter and the batch log
ext == <<client, strategy, analysis, unformatted, formatted, message_text,
         keyword_result, events, log>>

vars == <<cache, history, replied, appended, pc, batchLen, idx, response, cur, out,
          dr, composed, tpc, tev, tout, ext>>

-----------------------------------------------------------------------------
(* Bounds of the model *)

NumIds == 2         \* distinct non-empty webhookEventId values
CacheCap == 1       \* stands for the cap of line 136/185 (1000), scaled to NumIds
MaxHist == 2        \* total number of stored history entries
MaxBatch == 2       \* len(events) of one body
MaxDeliveries == 3  \* deliveries in a row whose record is kept
WatchedId == 1      \* the event id whose replies and appends the ghost sets follow

(* Program constants *)

NoId == 0                 \* webhookEventId absent or empty: falsy at line 125
StatusOK == 200
StatusBadRequest == 400
DefaultErrorStatus == 500 \* status_code of an AppError/LineError built without one

-----------------------------------------------------------------------------
(* Texts *)

Seg(k, n) == [k |-> k, n |-> n]
Lit(s) == <<Seg(s, 0)>>

ApologyEvent == Lit("apology_event")        \* conversation_service.py line 110
ApologyDetect == Lit("apology_detect")      \* line 164
Guidance == Lit("guidance")                 \* line 154
ImageReply == Lit("image_reply")            \* line 82
UnsupportedReply == Lit("unsupported")      \* line 101
DefaultReply == Lit("default_reply")        \* line 213
FileReply(name) == Lit("file_prefix") \o Lit(name) \o Lit("file_suffix")  \* line 95
BlankLine == Lit("\n\n")

\* the error_msg of an except clause, which ends with str(e) (conversation_service.py
\* lines 105 and 175, line_webhook.py line 199)
ErrorMessage(cause) == Lit("error_msg") \o Lit(cause)

Absent == "absent"
None == <<"None">>          \* None where the value is a string otherwise
EventIds == 1..NumIds
Users == {"u1", "u2"}
Texts == {"a", "b"}
ReplyTokens == {"tk"}

-----------------------------------------------------------------------------
(* Inputs: events of a webhook body, and what the collaborators do *)

\* message payloads; a field that is not in the JSON object is Absent
Msg(t, x, i, f) == [mtype |-> t, text |-> x, mid |-> i, fileName |-> f]
NoMessage == Msg("nomessage", Absent, Absent, Absent)   \* the event has no "message" key
Messages ==
    {Msg("text", x, Absent, Absent) : x \in Texts \cup {Absent}}
    \cup {Msg("image", Absent, i, Absent) : i \in {"m1", Absent}}
    \cup {Msg("file", Absent, "m1", f) : f \in {"doc", Absent}}
    \cup {Msg("sticker", Absent, Absent, Absent), Msg(Absent, Absent, Absent, Absent)}
    \cup {NoMessage}

Event(i, t, r, k, u, m) ==
    [id |-> i, type |-> t, isRedelivery |-> r, replyToken |-> k, userId |-> u, message |-> m]

\* Fields that no path of _process_event reads are left Absent: nothing but the id and
\* the redelivery flag is read when the type is missing or not "message", the reply
\* token is not read on the redelivery path, and the checks of lines 146 and 168-171
\* raise before the fields after them are read.
Events ==
    {Event(i, t, r, Absent, Absent, NoMessage) :
        i \in EventIds \cup {NoId}, t \in {Absent, "follow"}, r \in BOOLEAN}
    \cup {Event(i, "message", TRUE, Absent, Absent, NoMessage) : i \in EventIds \cup {NoId}}
    \cup {Event(i, "message", TRUE, Absent, u, m) :
        i \in EventIds \cup {NoId}, u \in Users, m \in Messages}
    \cup {Event(i, "message", FALSE, k, Absent, NoMessage) :
        i \in EventIds \cup {NoId}, k \in ReplyTokens \cup {Absent}}
    \cup {Event(i, "message", FALSE, k, u, m) :
        i \in EventIds \cup {NoId}, k \in ReplyTokens, u \in Users, m \in Messages}

\* the reply field of a detection result, as _generate_response reads it:
\*   plain         not a JSON-looking string; raw is the string
\*   json_dict     json.loads gives a dict with key reply = inner
\*   json_other    json.loads succeeds, no dict with a reply key
\*   broken_match  json.loads fails, the regex of line 207 captures inner
\*   broken        json.loads fails, the regex does not match
ReplyValue(f, raw, inner) == [form |-> f, raw |-> raw, inner |-> inner]
PlainReply(t) == ReplyValue("plain", t, <<>>)

\* risk_level: "high" is the value of line 220, "mid" of line 224, "" a missing key
DetectionResult(rv, lvl, conf, lab) ==
    [reply |-> rv, risk_level |-> lvl, confidence |-> conf, label |-> lab]

\* the default of lines 161-165 (no risk_level key)
DefaultDetection == DetectionResult(PlainReply(ApologyDetect), "", 0, "unknown")

\* analyze_message returns a result ("result"), returns something that is no result
\* dict, on which _generate_response raises ("malformed"), raises ValidationError
\* ("validation"), or raises something else ("error")
Outcome(k, r) == [kind |-> k, result |-> r]
NoResult == DetectionResult(PlainReply(<<>>), "", 0, "")
DetectOutcomes ==
    {Outcome("validation", NoResult), Outcome("error", NoResult),
     Outcome("malformed", NoResult),
     Outcome("result", DetectionResult(PlainReply(Lit("hello")), "high", 820, "scam")),
     Outcome("result", DetectionResult(PlainReply(<<>>), "low", 100, "safe")),
     Outcome("result", DetectionResult(ReplyValue("json_dict", Lit("{hi}"), Lit("hi")),
                                       "mid", 500, "suspicious"))}

\* the history store: it works, add_message raises, or get_chat_history raises
StoreOutcomes == {"ok", "add_fails", "read_fails"}

\* what LINE does with a reply call: it answers 200, it answers another status, or the
\* POST itself raises (no connection)
ReplyOutcomes == {"sent", "refused", "unreachable"}

Env(st, d) == [store |-> st, detect |-> d, reply |-> "sent"]
WithReply(env, o) == [env EXCEPT !.reply = o]
NoEnv == Env("ok", Outcome("error", NoResult))
Envs == {Env(st, d) : st \in StoreOutcomes, d \in DetectOutcomes}

\* the collaborators are reached only with a text message that has its text
EnvsFor(e) ==
    IF e.type = "message" /\ e.message.mtype = "text" /\ e.message.text # Absent
    THEN IF e.isRedelivery THEN {Env(st, NoEnv.detect) : st \in {"ok", "add_fails"}}
         ELSE Envs
    ELSE {NoEnv}

-----------------------------------------------------------------------------
(* ConversationService._generate_response *)

\* lines 191-209: the base reply, with the inner value of a double-encoded payload
ExtractReply(rv) ==
    CASE rv.form = "json_dict" -> rv.inner
      [] rv.form = "broken_match" -> rv.inner
      [] OTHER -> rv.raw

\* lines 212-213
OrDefault(reply) == IF reply = <<>> THEN DefaultReply ELSE reply

\* mutant: the thresholds are exclusive
BannerKind_Exclusive(risk_level, confidence) ==
    IF risk_level = "high" /\ confidence > 600 THEN "warning"
    ELSE IF risk_level = "mid" /\ confidence > 500 THEN "note"
    ELSE "none"

\* lines 220-229: "warning", "note" or "none"
BannerKind(risk_level, confidence) ==
    IF risk_level = "high" /\ confidence >= 600 THEN "warning"
    ELSE IF risk_level = "mid" /\ confidence >= 500 THEN "note"
    ELSE "none"

\* lines 221 and 225: the banner text carries the confidence as a percentage with one
\* decimal, i.e. the number of tenths of a percent
Banner(kind, confidence) == <<Seg(kind, confidence)>>

GenerateResponse(d) ==
    LET reply == OrDefault(ExtractReply(d.reply))
        kind == BannerKind(d.risk_level, d.confidence)
    IN  IF kind = "none" THEN reply
        ELSE Banner(kind, d.confidence) \o BlankLine \o reply

-----------------------------------------------------------------------------
(* storage_service (in-memory history store) and LineClient.reply_message *)

\* mutant: the message is not stored
AddMessage_Dropped(h, user, text) == h

AddMessage(h, user, text) == [h EXCEPT ![user] = Append(@, text)]
GetChatHistory(h, user) == h[user]

\* one call of reply_message
Reply(token, text) == [token |-> token, text |-> text]

\* mutant: an exception of the POST leaves reply_message
ReplyRaises_Uncaught(outcome) == outcome = "unreachable"

\* lines 45-74: reply_message returns True or False; whatever is raised inside is
\* caught at line 71, so nothing reaches the caller
ReplyRaises(outcome) == FALSE

\* one call of detection_service.analyze_message
Detect(text, user, snapshot) == [text |-> text, user |-> user, history |-> snapshot]

-----------------------------------------------------------------------------
(* ConversationService: what one call does *)

Done(h, replies, detects, raised) ==
    [history |-> h, replies |-> replies, detects |-> detects, raised |-> raised]

\* mutant: no default result is substituted
DetectionOrDefault_Raw(o) == o.result

\* the detection result process_message goes on with (lines 144-165)
DetectionOrDefault(o) == IF o.kind = "error" THEN DefaultDetection ELSE o.result

\* mutant: the bad-input error is handled like any other failure of the detection
IsValidationError_Never(kind) == FALSE

\* line 151: except ValidationError
IsValidationError(kind) == kind = "validation"

ProcessMessage(h, user, text, token, env) ==
    IF env.store = "add_fails"
    THEN Done(h, <<>>, <<>>, TRUE)                              \* line 133 raises: 174-177
    ELSE LET h1 == AddMessage(h, user, text)
             call == Detect(text, user, GetChatHistory(h1, user))
         IN  IF env.store = "read_fails"
             THEN Done(h1, <<>>, <<>>, TRUE)                    \* line 136 raises: 174-177
             ELSE IF IsValidationError(env.detect.kind)
             THEN Done(h1, <<Reply(token, Guidance)>>, <<call>>,
                       ReplyRaises(env.reply))                  \* lines 151-157
             ELSE IF env.detect.kind = "malformed"
             THEN Done(h1, <<>>, <<call>>, TRUE)                \* line 168 raises: 174-177
             ELSE Done(h1,
                       <<Reply(token, GenerateResponse(DetectionOrDefault(env.detect)))>>,
                       <<call>>, ReplyRaises(env.reply))        \* lines 168-172

\* mutant: the user is sent the error message
ApologiseAndRaise_Leaky(r, token) ==
    Done(r.history, Append(r.replies, Reply(token, ErrorMessage("orchestrator"))),
         r.detects, TRUE)

\* mutant: the apology is sent and the error is dropped
ApologiseAndRaise_Swallowed(r, token) ==
    Done(r.history, Append(r.replies, Reply(token, ApologyEvent)), r.detects, FALSE)

\* mutant: the error is re-raised without the apology attempt
ApologiseAndRaise_Silent(r, token) == Done(r.history, r.replies, r.detects, TRUE)

\* lines 104-116: the apology attempt, then the AppError
ApologiseAndRaise(r, token) ==
    Done(r.history, Append(r.replies, Reply(token, ApologyEvent)), r.detects, TRUE)

FileName(m) == IF m.fileName = Absent THEN "unknown_file" ELSE m.fileName   \* line 88

\* mutant: whatever the type, the message is analysed like a text
Branch_AllAnalysed(h, user, token, m, env) == ProcessMessage(h, user, "a", token, env)

\* lines 57-102: the branch of the message type, up to the first exception
Branch(h, user, token, m, env) ==
    CASE m.mtype = "text" ->
            IF m.text = Absent
            THEN Done(h, <<>>, <<>>, TRUE)                                \* lines 62-63
            ELSE ProcessMessage(h, user, m.text, token, env)
      [] m.mtype = "image" ->
            IF m.mid = Absent
            THEN Done(h, <<>>, <<>>, TRUE)                                \* lines 75-76
            ELSE Done(h, <<Reply(token, ImageReply)>>, <<>>, ReplyRaises(env.reply))
      [] m.mtype = "file" ->
            Done(h, <<Reply(token, FileReply(FileName(m)))>>, <<>>, ReplyRaises(env.reply))
      [] OTHER ->
            Done(h, <<Reply(token, UnsupportedReply)>>, <<>>, ReplyRaises(env.reply))

\* lines 104-116 after lines 57-102
Handled(r, token) == IF r.raised THEN ApologiseAndRaise(r, token) ELSE r

ProcessEventSvc(h, user, token, m, env) ==
    Handled(Branch(h, user, token, m, env), token)

-----------------------------------------------------------------------------
(* LineWebhookHandler._process_event *)

\* mutant: the duplicate check is gone
IsProcessed_Never(c, id) == FALSE

\* line 125
IsProcessed(c, id) == id # NoId /\ id \in c

\* mutant: the cache is never trimmed
Evict_Never(c) == {c}

\* lines 136-137 and 185-186: set.pop() removes an arbitrary member
Evict(c) == IF Cardinality(c) > CacheCap THEN {c \ {x} : x \in c} ELSE {c}

\* mutant: the id is recorded also when it is absent or empty
RecordId_Always(c, id) == Evict(c \cup {id})

\* lines 133-137 and 182-186: the caches the recording can leave
RecordId(c, id) == IF id = NoId THEN {c} ELSE Evict(c \cup {id})

\* @with_error_handling(reraise=True): the error goes on to the caller as it is
Reraise(status) == status

\* lines 198-201: whatever was raised is replaced by LineError(error_msg, original_error=e)
EventErrorStatus(inner) == Reraise(DefaultErrorStatus)

Result(c, h, replies, detects, path, forwarded, cause, status) ==
    [cache |-> c, history |-> h, replies |-> replies, detects |-> detects, path |-> path,
     forwarded |-> forwarded, cause |-> cause, status |-> status,
     error |-> IF status = 0 THEN <<>> ELSE ErrorMessage(cause)]

Returned(c, h, path) == Result(c, h, <<>>, <<>>, path, FALSE, "none", 0)
Raised(c, h, path, cause, inner) ==
    Result(c, h, <<>>, <<>>, path, FALSE, cause, EventErrorStatus(inner))

\* mutant: the type check is gone
HasType_Unchecked(e) == TRUE

\* lines 140 and 162: "type" in event
HasType(e) == e.type # Absent

\* mutant: the redelivery flag is not looked at
IsRedelivery_Never(e) == FALSE

\* lines 123 and 130
IsRedelivery(e) == e.isRedelivery

\* mutant: a redelivered message is not stored
StoresText_Never(m) == FALSE

\* line 157: the redelivered message is stored
StoresText(m) == m.mtype = "text" /\ m.text # Absent

\* lines 130-159, after the id was recorded
Redelivered(c, h, e, env) ==
    IF ~HasType(e)
    THEN Raised(c, h, "redelivery", "validation", StatusBadRequest)      \* line 141
    ELSE IF e.type # "message" THEN Returned(c, h, "redelivery")
    ELSE IF e.userId = Absent
    THEN Raised(c, h, "redelivery", "validation", StatusBadRequest)      \* line 147
    ELSE IF e.message = NoMessage \/ e.message.mtype = Absent
    THEN Raised(c, h, "redelivery", "internal", DefaultErrorStatus)      \* KeyError, 151/154
    ELSE IF StoresText(e.message)
    THEN IF env.store = "add_fails"
         THEN Raised(c, h, "redelivery", "internal", DefaultErrorStatus)
         ELSE Returned(c, AddMessage(h, e.userId, e.message.text), "redelivery")  \* line 158
    ELSE Returned(c, h, "redelivery")

\* lines 189-194 and the handler of 198-201
Forward(c, h, e, env) ==
    LET r == ProcessEventSvc(h, e.userId, e.replyToken, e.message, env)
    IN  Result(c, r.history, r.replies, r.detects, "fresh", TRUE,
               IF r.raised THEN "orchestrator" ELSE "none",
               IF r.raised THEN EventErrorStatus(DefaultErrorStatus) ELSE 0)

\* lines 161-196
Fresh(c, h, e, env) ==
    IF ~HasType(e)
    THEN {Raised(c, h, "fresh", "validation", StatusBadRequest)}         \* line 163
    ELSE IF e.type # "message" THEN {Returned(c, h, "fresh")}            \* line 196
    ELSE IF e.replyToken = Absent \/ e.userId = Absent
    THEN {Raised(c, h, "fresh", "validation", StatusBadRequest)}         \* lines 169, 171
    ELSE IF e.message = NoMessage \/ e.message.mtype = Absent
    THEN {Raised(c, h, "fresh", "internal", DefaultErrorStatus)}         \* KeyError, 176/179
    ELSE {Forward(c2, h, e, env) : c2 \in RecordId(c, e.id)}

\* the results one call of _process_event can have
Dispatch(c, h, e, env) ==
    IF IsProcessed(c, e.id) THEN {Returned(c, h, "skipped")}             \* lines 125-127
    ELSE IF IsRedelivery(e)
    THEN {Redelivered(c2, h, e, env) : c2 \in RecordId(c, e.id)}
    ELSE Fresh(c, h, e, env)

\* mutant: the loop catches the exception of an event and goes on
AbortsBatch_Swallowed(status) == FALSE

\* lines 95-96: an exception out of _process_event leaves the for loop
AbortsBatch(status) == status # 0

\* lines 104-107: LineError(error_msg, original_error=e), no status given
WebhookErrorStatus(inner) == Reraise(DefaultErrorStatus)

-----------------------------------------------------------------------------
(* State *)

Threads == {"t1", "t2"}

HistTotal(h) == LET RECURSIVE Sum(_)
                    Sum(S) == IF S = {} THEN 0
                              ELSE LET u == CHOOSE x \in S : TRUE
                                   IN  Len(h[u]) + Sum(S \ {u})
                IN  Sum(Users)

\* what a step added to each user's history
Appends(h, h2) == [u \in Users |-> SubSeq(h2[u], Len(h[u]) + 1, Len(h2[u]))]
Extends(h, h2) == \A u \in Users :
    Len(h2[u]) >= Len(h[u]) /\ SubSeq(h2[u], 1, Len(h[u])) = h[u]

NoEvent == Event(NoId, Absent, FALSE, Absent, Absent, NoMessage)
NoAppends == [u \in Users |-> <<>>]
NoOut == [path |-> "none", forwarded |-> FALSE, cause |-> "none", status |-> 0,
          replies |-> <<>>, detects |-> <<>>, appends |-> NoAppends, extends |-> TRUE,
          seen |-> FALSE, repliedBefore |-> FALSE, appendedBefore |-> FALSE,
          recorded |-> FALSE, full |-> FALSE, env |-> NoEnv, error |-> <<>>]
NoThreadOut == [forwarded |-> FALSE, raced |-> FALSE, replies |-> <<>>]
Response(body, status, cause) == [body |-> body, status |-> status, cause |-> cause]
NoResponse == Response("", 0, "none")

\* mutant: a body without events is turned down
Acknowledge_RejectEmpty(n) ==
    IF n = 0 THEN Response("error", StatusBadRequest, "validation")
    ELSE Response("OK", StatusOK, "none")

\* lines 94 and 98: "OK" for a body whose n events are all through
Acknowledge(n) == Response("OK", StatusOK, "none")

\* the detection layer, the formatter and the batch log before they are used
NoClient == [given |-> FALSE, api_url |-> Absent]
NoAnalysis == [called |-> FALSE]
NoRaw == [messages |-> <<>>, user_id |-> None]
NoFormatted == [parsed |-> <<>>]
NoKeywordResult == [keyword_count |-> 0]

ExtIdle ==
    /\ client = NoClient
    /\ strategy = "none"
    /\ analysis = NoAnalysis
    /\ unformatted = NoRaw
    /\ formatted = NoFormatted
    /\ message_text = <<>>
    /\ keyword_result = NoKeywordResult
    /\ events = <<>>
    /\ log = <<>>

\* the state of the dispatcher apart from pc
dispatcher == <<cache, history, replied, appended, batchLen, idx, response, cur, out,
                dr, composed, tpc, tev, tout>>

Init ==
    /\ cache = {}
    /\ history = [u \in Users |-> <<>>]
    /\ replied = {}
    /\ appended = {}
    /\ pc = "idle"
    /\ batchLen = 0
    /\ idx = 0
    /\ response = NoResponse
    /\ cur = NoEvent
    /\ out = NoOut
    /\ dr = DefaultDetection
    /\ composed = <<>>
    /\ tpc = [t \in Threads |-> "off"]
    /\ tev = [t \in Threads |-> NoEvent]
    /\ tout = [t \in Threads |-> NoThreadOut]
    /\ ExtIdle

-----------------------------------------------------------------------------
(* handle_webhook, one request at a time *)

\* lines 85 and 100-103: the body is not JSON
RejectBody ==
    /\ pc = "idle"
    /\ response' = Response("error", StatusBadRequest, "json")
    /\ batchLen' = 0 /\ idx' = 0
    /\ UNCHANGED <<cache, history, replied, appended, pc, cur, out, dr, composed, tpc, tev, tout, ext>>

\* lines 91-94: no events
AcceptEmpty ==
    /\ pc = "idle"
    /\ response' = Acknowledge(0)
    /\ batchLen' = 0 /\ idx' = 0
    /\ UNCHANGED <<cache, history, replied, appended, pc, cur, out, dr, composed, tpc, tev, tout, ext>>

\* lines 91-95: a body with n events enters the loop
StartBatch ==
    /\ pc = "idle"
    /\ \E n \in 1..MaxBatch : batchLen' = n
    /\ idx' = 0
    /\ response' = NoResponse
    /\ pc' = "loop"
    /\ UNCHANGED <<cache, history, replied, appended, cur, out, dr, composed, tpc, tev, tout, ext>>

MayAppend(e) == e.type = "message" /\ e.message.mtype = "text" /\ e.message.text # Absent

\* line 95: the loop reaches the next event of the body
NextEvent ==
    /\ pc = "loop"
    /\ \E e \in Events :
        /\ MayAppend(e) => HistTotal(history) < MaxHist
        /\ cur' = e
    /\ pc' = "event"
    /\ out' = NoOut
    /\ UNCHANGED <<cache, history, replied, appended, batchLen, idx, response,
                   dr, composed, tpc, tev, tout, ext>>

\* line 96: _process_event(event), with everything it calls
ProcessEvent ==
    /\ pc = "event"
    /\ \E env \in EnvsFor(cur) : \E r \in Dispatch(cache, history, cur, env) :
        /\ cache' = r.cache
        /\ history' = r.history
        /\ replied' = IF r.replies # <<>> THEN replied \cup ({cur.id} \cap {WatchedId})
                      ELSE replied
        /\ appended' = IF r.history # history THEN appended \cup ({cur.id} \cap {WatchedId})
                       ELSE appended
        /\ out' = [path |-> r.path, forwarded |-> r.forwarded, cause |-> r.cause,
                   status |-> r.status, replies |-> r.replies, detects |-> r.detects,
                   appends |-> Appends(history, r.history),
                   extends |-> Extends(history, r.history),
                   seen |-> cur.id \in cache,
                   repliedBefore |-> cur.id \in replied,
                   appendedBefore |-> cur.id \in appended,
                   recorded |-> cur.id \in r.cache,
                   full |-> Cardinality(cache) = CacheCap,
                   env |-> env,
                   error |-> r.error]
    /\ pc' = "after"
    /\ UNCHANGED <<batchLen, idx, response, cur, dr, composed, tpc, tev, tout, ext>>

\* lines 95-98 and 104-107: the loop goes on, returns "OK", or the error leaves
Continue ==
    /\ pc = "after"
    /\ IF AbortsBatch(out.status)
       THEN /\ response' = Response("error", WebhookErrorStatus(out.status), out.cause)
            /\ pc' = "idle"
            /\ idx' = idx
       ELSE /\ idx' = idx + 1
            /\ IF idx + 1 = batchLen
               THEN response' = Acknowledge(batchLen) /\ pc' = "idle"
               ELSE response' = response /\ pc' = "loop"
    /\ cur' = NoEvent
    /\ out' = NoOut
    /\ UNCHANGED <<cache, history, replied, appended, batchLen, dr, composed, tpc, tev, tout, ext>>

Next == RejectBody \/ AcceptEmpty \/ StartBatch \/ NextEvent \/ ProcessEvent \/ Continue

Spec == Init /\ [][Next]_vars

-----------------------------------------------------------------------------
(* Claims about the dispatcher and the orchestrator, one request at a time *)

\* what _process_event did with cur is known
Processed == pc = "after"

NoSideEffects ==
    /\ out.replies = <<>>
    /\ out.detects = <<>>
    /\ out.appends = NoAppends
    /\ ~out.forwarded

\* C1 as stated: across any sequence of batches the reply and the history append for
\* one non-empty event id each happen at most once in total.
C1_Original ==
    (Processed /\ cur.id # NoId) =>
        /\ ~(out.repliedBefore /\ out.replies # <<>>)
        /\ ~(out.appendedBefore /\ out.appends # NoAppends)

\* C1 amended: a delivery whose non-empty event id is in the cache when it arrives is
\* skipped: no reply call, no history append, no detection call, no error.
C1_SeenIsSkipped ==
    (Processed /\ out.seen) =>
        /\ out.path = "skipped"
        /\ NoSideEffects
        /\ out.status = 0

\* an answered and stored text message is delivered again and found in the cache
C1_Witness ==
    /\ Processed /\ out.seen /\ out.repliedBefore /\ out.appendedBefore
    /\ cur.type = "message" /\ ~cur.isRedelivery /\ cur.replyToken # Absent
    /\ cur.message.mtype = "text" /\ cur.message.text # Absent

\* C2 as stated: every event without type fails with a validation error before any
\* detection, history or reply logic, whether or not its id is in the cache.
C2_Original ==
    (Processed /\ cur.type = Absent) =>
        /\ out.cause = "validation" /\ out.status # 0
        /\ NoSideEffects

\* C2 amended: an event without type causes no detection, history or reply logic; it
\* fails with a validation error when its event id is absent or not in the cache
\* (redelivered or not), and is skipped without an error when its id is in the cache.
C2_MissingType ==
    (Processed /\ cur.type = Absent) =>
        /\ NoSideEffects
        /\ IF out.seen THEN out.path = "skipped" /\ out.status = 0
           ELSE out.cause = "validation" /\ out.status # 0

\* a redelivered event without type, with an id not in the cache, fails validation
C2_Witness ==
    /\ Processed /\ cur.type = Absent /\ cur.isRedelivery /\ cur.id # NoId
    /\ ~out.seen /\ out.cause = "validation" /\ out.status # 0

\* the number of events of the body that were handed to _process_event
Attempted == IF response.body = "error" /\ response.cause # "json" THEN idx + 1 ELSE idx

\* C3 as stated: a failure at event i does not abort the batch, so when handle_webhook
\* is through, every event of the body was processed.
C3_Original == (pc = "idle" /\ response # NoResponse) => Attempted = batchLen

\* C3 amended: a failure while processing event i is caught at the event level and
\* raised again; it leaves the loop, handle_webhook ends with an error, and no later
\* event of the body is processed.
C3_FailureAbortsBatch ==
    [][(pc = "after" /\ out.status # 0) =>
            /\ pc' = "idle"
            /\ response'.body = "error"
            /\ idx' = idx
            /\ UNCHANGED <<cache, history>>]_vars

\* a body whose first event fails validation ends with events left unprocessed
C3_Witness ==
    /\ pc = "idle" /\ response.body = "error" /\ response.cause = "validation"
    /\ Attempted < batchLen

\* C4: a redelivered text message with an id that is not in the cache and with a user
\* id appends its text to that user's history exactly once (the store accepting it)
\* and triggers no reply call and no detection call.
C4_RedeliveryStoresSilently ==
    (/\ Processed /\ cur.isRedelivery /\ cur.type = "message"
     /\ cur.message.mtype = "text" /\ cur.message.text # Absent
     /\ cur.userId # Absent /\ ~out.seen /\ out.env.store = "ok")
    => /\ out.appends = [NoAppends EXCEPT ![cur.userId] = <<cur.message.text>>]
       /\ out.extends
       /\ out.replies = <<>>
       /\ out.detects = <<>>
       /\ ~out.forwarded
       /\ out.status = 0

\* a redelivered text is stored behind an earlier message of the same user
C4_Witness ==
    /\ Processed /\ cur.isRedelivery /\ cur.type = "message"
    /\ cur.message.mtype = "text" /\ cur.message.text # Absent
    /\ cur.userId # Absent /\ cur.id # NoId /\ ~out.seen /\ out.env.store = "ok"
    /\ Len(history[cur.userId]) >= 2

\* C5: the cache never holds more than the cap of event ids.
C5_CacheBound == Cardinality(cache) <= CacheCap

\* a new id is recorded on the redelivery path while the cache is at its cap
C5_Witness ==
    /\ Processed /\ out.full /\ ~out.seen /\ cur.id # NoId
    /\ out.path = "redelivery" /\ Cardinality(cache) = CacheCap

\* C6: when the detection call raises a non-validation exception, exactly one reply
\* call is made, with the apology of the default result, and nothing is raised.
C6_DetectionFailureDegrades ==
    (Processed /\ out.forwarded /\ out.detects # <<>> /\ out.env.detect.kind = "error")
    => /\ out.replies = <<Reply(cur.replyToken, ApologyDetect)>>
       /\ out.status = 0
       /\ out.cause = "none"

C6_Witness ==
    /\ Processed /\ out.forwarded /\ out.detects # <<>> /\ out.env.detect.kind = "error"
    /\ Len(out.replies) = 1

\* C7: every fresh message event forwarded to the orchestrator gets at least one reply
\* call, with its reply token, before process_event returns or raises.
C7_AlwaysAReply ==
    (Processed /\ out.forwarded) =>
        /\ Len(out.replies) >= 1
        /\ \A i \in 1..Len(out.replies) : out.replies[i].token = cur.replyToken

\* the history store fails on a text message: the apology is sent, the error raised
C7_Witness ==
    /\ Processed /\ out.forwarded /\ out.env.store = "add_fails" /\ out.status # 0
    /\ cur.message.mtype = "text" /\ out.replies = <<Reply(cur.replyToken, ApologyEvent)>>

\* C10 as stated: a validation failure of an event leaves handle_webhook with status
\* 400, and only the other failures leave it with status 500.
C10_Claim ==
    (pc = "idle" /\ response.body = "error") =>
        /\ response.cause = "validation" => response.status = StatusBadRequest
        /\ response.status = DefaultErrorStatus => response.cause \notin {"validation", "json"}

-----------------------------------------------------------------------------
(* _generate_response on its own: the detection result is drawn, then composed *)

ReplyValues ==
    {PlainReply(Lit("hello")), PlainReply(<<>>),
     ReplyValue("json_dict", Lit("{reply: hi}"), Lit("hi")),
     ReplyValue("json_dict", Lit("{reply: }"), <<>>),
     ReplyValue("json_other", Lit("[{reply: hi}]"), <<>>),
     ReplyValue("broken_match", Lit("{reply: hi"), Lit("hi")),
     ReplyValue("broken", Lit("{'reply': hi"), <<>>)}
RiskLevels == {"high", "mid", "low", "", "other"}
Confidences == {0, 499, 500, 599, 600, 820, 1000}
DetectionResults ==
    {DetectionResult(rv, lvl, conf, "any") :
        rv \in ReplyValues, lvl \in RiskLevels, conf \in Confidences}

InitCompose ==
    /\ cache = {}
    /\ history = [u \in Users |-> <<>>]
    /\ replied = {}
    /\ appended = {}
    /\ pc = "compose"
    /\ batchLen = 0
    /\ idx = 0
    /\ response = NoResponse
    /\ cur = NoEvent
    /\ out = NoOut
    /\ dr \in DetectionResults
    /\ composed = <<>>
    /\ tpc = [t \in Threads |-> "off"]
    /\ tev = [t \in Threads |-> NoEvent]
    /\ tout = [t \in Threads |-> NoThreadOut]
    /\ ExtIdle

Compose ==
    /\ pc = "compose"
    /\ composed' = GenerateResponse(dr)
    /\ pc' = "composed"
    /\ UNCHANGED <<cache, history, replied, appended, batchLen, idx, response, cur, out,
                   dr, tpc, tev, tout, ext>>

SpecCompose == InitCompose /\ [][Compose]_vars

HasBanner(text, kind) == Len(text) >= 2 /\ text[1].k = kind /\ <<text[2]>> = BlankLine
Body(text) ==
    IF HasBanner(text, "warning") \/ HasBanner(text, "note")
    THEN SubSeq(text, 3, Len(text)) ELSE text

\* C9: the warning banner is there exactly when risk_level is high and confidence
\* >= 0.6, the caution note exactly when risk_level is mid and confidence >= 0.5, no
\* banner otherwise; a banner comes first, with the confidence percentage, then a blank
\* line, then the reply text; an empty reply is replaced by the default text.
C9_BannerRule ==
    pc = "composed" =>
        /\ HasBanner(composed, "warning") <=> (dr.risk_level = "high" /\ dr.confidence >= 600)
        /\ HasBanner(composed, "note") <=> (dr.risk_level = "mid" /\ dr.confidence >= 500)
        /\ (HasBanner(composed, "warning") \/ HasBanner(composed, "note")) =>
                composed[1].n = dr.confidence
        /\ Body(composed) # <<>>
        /\ \A i \in 1..Len(Body(composed)) : Body(composed)[i].k \notin {"warning", "note"}
        /\ dr.reply.form = "plain" =>
                Body(composed) = IF dr.reply.raw = <<>> THEN DefaultReply ELSE dr.reply.raw

\* risk_level high at exactly 0.6 with an empty reply: banner, blank line, default text
C9_Witness ==
    /\ pc = "composed" /\ dr.risk_level = "high" /\ dr.confidence = 600
    /\ dr.reply = PlainReply(<<>>)
    /\ composed = <<Seg("warning", 600)>> \o BlankLine \o DefaultReply

-----------------------------------------------------------------------------
(* _process_event of two requests served in parallel threads. A thread runs the fresh *)
(* path for a well-formed message event; the steps are the operations on the shared   *)
(* set (line 125, line 183, line 185, line 186) and the call of line 189.             *)

ThreadEvents ==
    {Event(i, "message", FALSE, k, u, m) :
        i \in EventIds, k \in ReplyTokens, u \in Users,
        m \in {Msg("text", "a", Absent, Absent), Msg("image", Absent, "m1", Absent)}}

InFlight(t) == tpc[t] \notin {"off", "done"}
TextsInFlight == Cardinality({t \in Threads : InFlight(t) /\ MayAppend(tev[t])})

InitThreads ==
    /\ cache = {}
    /\ history = [u \in Users |-> <<>>]
    /\ replied = {}
    /\ appended = {}
    /\ pc = "threads"
    /\ batchLen = 0
    /\ idx = 0
    /\ response = NoResponse
    /\ cur = NoEvent
    /\ out = NoOut
    /\ dr = DefaultDetection
    /\ composed = <<>>
    /\ tpc = [t \in Threads |-> "off"]
    /\ tev = [t \in Threads |-> NoEvent]
    /\ tout = [t \in Threads |-> NoThreadOut]
    /\ ExtIdle

ThreadFrame == UNCHANGED <<replied, appended, pc, batchLen, idx, response, cur, out,
                           dr, composed, ext>>

\* a request with one event reaches _process_event in thread t
T_Start(t) ==
    /\ tpc[t] = "off"
    /\ \E e \in ThreadEvents :
        /\ MayAppend(e) => HistTotal(history) + TextsInFlight < MaxHist
        /\ tev' = [tev EXCEPT ![t] = e]
    /\ tpc' = [tpc EXCEPT ![t] = "check"]
    /\ tout' = [tout EXCEPT ![t] = NoThreadOut]
    /\ UNCHANGED <<cache, history>> /\ ThreadFrame

\* lines 125-127, then the checks of lines 130-179, which read the event only
T_Check(t) ==
    /\ tpc[t] = "check"
    /\ IF IsProcessed(cache, tev[t].id)
       THEN tpc' = [tpc EXCEPT ![t] = "done"] /\ tout' = tout
       ELSE /\ tpc' = [tpc EXCEPT ![t] = "record"]
            /\ tout' = [tout EXCEPT ![t].raced =
                            \E u \in Threads \ {t} :
                                tpc[u] = "record" /\ tev[u].id = tev[t].id]
    /\ UNCHANGED <<cache, history, tev>> /\ ThreadFrame

\* line 183
T_Record(t) ==
    /\ tpc[t] = "record"
    /\ cache' = cache \cup {tev[t].id}
    /\ tpc' = [tpc EXCEPT ![t] = "len"]
    /\ UNCHANGED <<history, tev, tout>> /\ ThreadFrame

\* line 185
T_Len(t) ==
    /\ tpc[t] = "len"
    /\ tpc' = [tpc EXCEPT ![t] = IF Cardinality(cache) > CacheCap THEN "pop" ELSE "invoke"]
    /\ UNCHANGED <<cache, history, tev, tout>> /\ ThreadFrame

\* line 186
T_Pop(t) ==
    /\ tpc[t] = "pop"
    /\ \E x \in cache : cache' = cache \ {x}
    /\ tpc' = [tpc EXCEPT ![t] = "invoke"]
    /\ UNCHANGED <<history, tev, tout>> /\ ThreadFrame

\* lines 189-194
T_Invoke(t) ==
    /\ tpc[t] = "invoke"
    /\ \E env \in EnvsFor(tev[t]) :
        LET r == ProcessEventSvc(history, tev[t].userId, tev[t].replyToken,
                                 tev[t].message, env)
        IN  /\ history' = r.history
            /\ tout' = [tout EXCEPT ![t].forwarded = TRUE, ![t].replies = r.replies]
    /\ tpc' = [tpc EXCEPT ![t] = "done"]
    /\ UNCHANGED <<cache, tev>> /\ ThreadFrame

\* the request is answered; the thread takes the next one
T_Finish(t) ==
    /\ tpc[t] = "done"
    /\ tpc' = [tpc EXCEPT ![t] = "off"]
    /\ tev' = [tev EXCEPT ![t] = NoEvent]
    /\ tout' = [tout EXCEPT ![t] = NoThreadOut]
    /\ UNCHANGED <<cache, history>> /\ ThreadFrame

NextThreads ==
    \E t \in Threads :
        \/ T_Start(t) \/ T_Check(t) \/ T_Record(t) \/ T_Len(t)
        \/ T_Pop(t) \/ T_Invoke(t) \/ T_Finish(t)

SpecThreads == InitThreads /\ [][NextThreads]_vars

SameEvent(t, u) == t # u /\ tev[t] = tev[u] /\ tev[t].id # NoId

\* C8 as stated: for two requests with the same fresh message event served in parallel
\* threads, the check and the recording of the id are mutually exclusive, so at most
\* one of the two invokes the orchestrator and at most one reply is sent for that id.
C8_Claim ==
    \A t, u \in Threads :
        (SameEvent(t, u) /\ (tout[t].raced \/ tout[u].raced)) =>
            /\ ~(tout[t].forwarded /\ tout[u].forwarded)
            /\ Len(tout[t].replies) + Len(tout[u].replies) <= 1

-----------------------------------------------------------------------------
(* utils/conversation_formatter.py. A string is a sequence of characters; an ideograph *)
(* of the range 一-龥 is written by its reading.                              *)

DigitChars == {"0", "1", "2", "3", "4", "5", "6", "7", "8", "9"}
Ideographs == {"lin", "guo", "qing", "xing", "qi", "er"}
Letters == {"H", "i", "n", "a", "h", "t", "p", "s", "e", "x", "m", "l", "c", "o", "A", "B", "b"}
Newline == "\n"

IsDigit(c) == c \in DigitChars                              \* \d
IsSpace(c) == c \in {" ", Newline}                          \* \s, and what strip() removes
IsIdeograph(c) == c \in Ideographs                          \* [一-龥]
IsWord(c) == c \in DigitChars \cup Letters \cup Ideographs \cup {"_"}   \* \w
IsSenderChar(c) == IsIdeograph(c) \/ IsWord(c) \/ IsSpace(c)    \* [一-龥\w\s]

All(s, from, to, P(_)) == \A i \in from..to : P(s[i])

\* the largest and the smallest member of a set of numbers
Greatest(S) == CHOOSE e \in S : \A f \in S : e >= f
Least(S) == CHOOSE e \in S : \A f \in S : e <= f

\* the part of s between the first and the last of the positions to keep
Between(s, keep) == IF keep = {} THEN <<>> ELSE SubSeq(s, Least(keep), Greatest(keep))

\* str.strip()
Strip(s) == Between(s, {i \in 1..Len(s) : ~IsSpace(s[i])})

\* where "$" matches: at the end, or before a newline that ends the string
MatchEnd(s) == IF Len(s) >= 1 /\ s[Len(s)] = Newline THEN Len(s) - 1 ELSE Len(s)

\* the ends e at which ^(\d{4}\.\d{2}\.\d{2}\s+[一-龥]+)$ matches s[1..e]
DateEnds(s) ==
    {e \in {Len(s), MatchEnd(s)} :
        /\ e >= 12
        /\ All(s, 1, 4, IsDigit) /\ s[5] = "."
        /\ All(s, 6, 7, IsDigit) /\ s[8] = "."
        /\ All(s, 9, 10, IsDigit)
        /\ \E k \in 1..(e - 11) :
              All(s, 11, 10 + k, IsSpace) /\ All(s, 11 + k, e, IsIdeograph)}

GreatestOrZero(S) == IF S = {} THEN 0 ELSE Greatest(S)

\* line 126: ^(\d{4}\.\d{2}\.\d{2}\s+[一-龥]+)$ ; the length of group 1, or 0
DateMatch(s) == GreatestOrZero(DateEnds(s))

\* \d{1,2}:\d{2} at the start: the length of the time, or 0
TimeLen(s) ==
    IF Len(s) >= 5 /\ All(s, 1, 2, IsDigit) /\ s[3] = ":" /\ All(s, 4, 5, IsDigit) THEN 5
    ELSE IF Len(s) >= 4 /\ IsDigit(s[1]) /\ s[2] = ":" /\ All(s, 3, 4, IsDigit) THEN 4
    ELSE 0

\* behind a time of length p and up to the end e: the ways to split the string into
\* a spaces, n sender characters, b spaces and a content without a newline
SplitsBehind(s, p, e) ==
    IF p = 0 THEN {}
    ELSE UNION {UNION {{<<a, n, b>> :
                          b \in {b \in 1..(e - p - a - n - 1) :
                                    /\ All(s, p + a + n + 1, p + a + n + b, IsSpace)
                                    /\ \A i \in (p + a + n + b + 1)..e : s[i] # Newline}} :
                       n \in {n \in 1..(e - p - a) :
                                 All(s, p + a + 1, p + a + n, IsSenderChar)}} :
                a \in {a \in 1..(e - p) : All(s, p + 1, p + a, IsSpace)}}

\* line 133: ^(\d{1,2}:\d{2})\s+([一-龥\w\s]+?)\s+(.+)$ ; the ways it matches
MsgSplits(s) == SplitsBehind(s, TimeLen(s), MatchEnd(s))

\* the order in which the backtracking matcher tries the splits: \s+ greedy, the
\* sender non-greedy, \s+ greedy
Before(x, y) ==
    \/ x[1] > y[1]
    \/ x[1] = y[1] /\ x[2] < y[2]
    \/ x[1] = y[1] /\ x[2] = y[2] /\ x[3] >= y[3]

FirstSplit(S) == CHOOSE x \in S : \A y \in S : Before(x, y)

\* the split the matcher finds first
MsgMatch(s) == FirstSplit(MsgSplits(s))

EmptyDict == [empty |-> TRUE]
TypeText(t) == <<t>>

\* lines 128-131
DateDict(message, d) == [type |-> TypeText("date_marker"), date |-> SubSeq(message, 1, d)]

\* lines 134-141: the groups of the match m behind a time of length p, up to e
MessageDict(message, p, m, e) ==
    [type |-> TypeText("message"),
     time |-> SubSeq(message, 1, p),
     sender |-> Strip(SubSeq(message, p + m[1] + 1, p + m[1] + m[2])),
     content |-> Strip(SubSeq(message, p + m[1] + m[2] + m[3] + 1, e))]

\* lines 143-146
UnknownDict(content) ==
    IF content # <<>> THEN [type |-> TypeText("unknown"), content |-> content]
    ELSE EmptyDict

\* lines 124-146, for a date match of length d and the message matches S
ParsedAs(message, d, S) ==
    IF d > 0 THEN DateDict(message, d)
    ELSE IF S # {}
    THEN MessageDict(message, TimeLen(message), FirstSplit(S), MatchEnd(message))
    ELSE UnknownDict(Strip(message))

\* lines 111-146
ParseMessage(message) == ParsedAs(message, DateMatch(message), MsgSplits(message))

\* mutant: the empty dict of a blank line is kept
IfParsed_KeepAll(parsed) == <<parsed>>

\* lines 48-49 and 87-88: "if parsed:"
IfParsed(parsed) == IF parsed = EmptyDict THEN <<>> ELSE <<parsed>>

RECURSIVE ParseAll(_)
\* lines 46-49 and 86-88: the entries that are not empty, in order
ParseAll(messages) ==
    IF messages = <<>> THEN <<>>
    ELSE IfParsed(ParseMessage(Head(messages))) \o ParseAll(Tail(messages))

\* what "if user_id:" takes for false
Falsy(x) == x = None \/ x = <<>>

\* datetime.now().isoformat()
Clock == <<"now">>

\* lines 51-59: the document around the parsed messages
JsonDocument(parsed_messages, user_id) ==
    [conversation |-> parsed_messages,
     metadata |-> [message_count |-> Len(parsed_messages),
                   current_user_id |-> user_id,
                   timestamp |-> Clock]]

\* lines 43-61: the document that json.dumps writes
FormatHistoryAsJson(messages, user_id) == JsonDocument(ParseAll(messages), user_id)

\* str(n) and int(text) for a count
DigitStr == <<"0", "1", "2", "3", "4", "5", "6", "7", "8", "9">>
RECURSIVE DecimalText(_)
DecimalText(n) ==
    IF n < 10 THEN <<DigitStr[n + 1]>>
    ELSE DecimalText(n \div 10) \o <<DigitStr[(n % 10) + 1]>>
RECURSIVE DecimalValue(_)
DecimalValue(t) ==
    IF t = <<>> THEN 0
    ELSE 10 * DecimalValue(SubSeq(t, 1, Len(t) - 1))
         + (CHOOSE d \in 0..9 : DigitStr[d + 1] = t[Len(t)])

\* an XML element: a leaf carries text, the others carry children
Elem(tag, children) == [tag |-> tag, text |-> <<>>, children |-> children]
Leaf(tag, text) == [tag |-> tag, text |-> text, children |-> <<>>]

\* lines 91-104: one child of a <message>, when the key is there
Field(parsed, k) == IF k \in DOMAIN parsed THEN <<Leaf(k, parsed[k])>> ELSE <<>>

\* lines 89-104: the children of one <message>, in the order they are added
MessageElem(parsed) ==
    Elem("message",
         Field(parsed, "date") \o Field(parsed, "time") \o Field(parsed, "sender")
         \o Field(parsed, "content") \o Field(parsed, "type"))

\* lines 76-104: the document around the parsed messages, message_count being the
\* length of the list that came in
XmlDocument(parsed_messages, count, user_id) ==
    Elem("conversation",
         <<Elem("metadata",
                <<Leaf("message_count", DecimalText(count))>>
                \o (IF Falsy(user_id) THEN <<>>
                    ELSE <<Leaf("current_user_id", user_id)>>)
                \o <<Leaf("timestamp", Clock)>>),
           Elem("messages",
                [i \in 1..Len(parsed_messages) |-> MessageElem(parsed_messages[i])])>>)

\* lines 74-109: the document that toprettyxml writes
FormatHistoryAsXml(messages, user_id) ==
    XmlDocument(ParseAll(messages), Len(messages), user_id)

\* lines 27-30
FormatConversation(messages, format_type, user_id) ==
    IF format_type = "xml" THEN FormatHistoryAsXml(messages, user_id)
    ELSE FormatHistoryAsJson(messages, user_id)

-----------------------------------------------------------------------------
(* The formatter on its own: the messages are drawn, then formatted both ways *)

MaxTokens == 5      \* tokens of a generated line
MaxLines == 2       \* len(messages) of a generated list

TimeTok == <<"2", "1", ":", "4", "9">>
NameTok == <<"lin", "guo", "qing">>
WordTok == <<"H", "i", "n", "a">>
UrlTok == <<"h", "t", "t", "p", "s", ":", "/", "/",
            "e", "x", "a", "m", "p", "l", "e", ".", "c", "o", "m">>
DateTok == <<"2", "0", "2", "5", ".", "0", "4", ".", "2", "2">>
DayTok == <<"xing", "qi", "er">>
Tokens == {TimeTok, NameTok, WordTok, DateTok, DayTok, <<" ">>, <<Newline>>}

\* "21:49 林國晴 Hina https://example.com" and "2025.04.22 星期二"
ExampleMessage == TimeTok \o <<" ">> \o NameTok \o <<" ">> \o WordTok \o <<" ">> \o UrlTok
ExampleDate == DateTok \o <<" ">> \o DayTok

SeqsUpTo(S, n) == UNION {[1..k -> S] : k \in 0..n}
RECURSIVE Flatten(_)
Flatten(ss) == IF ss = <<>> THEN <<>> ELSE Head(ss) \o Flatten(Tail(ss))

Lines == {Flatten(ts) : ts \in SeqsUpTo(Tokens, MaxTokens)} \cup {ExampleMessage, ExampleDate}
FewLines == {ExampleMessage, ExampleDate, WordTok, <<>>, <<" ", " ">>}
UserIds == {None, <<"U", "1">>}

Raw(messages, user_id) == [messages |-> messages, user_id |-> user_id]
RawInputs ==
    {Raw(<<l>>, None) : l \in Lines}
    \cup {Raw(ms, u) : ms \in SeqsUpTo(FewLines, MaxLines), u \in UserIds}

InitFormat ==
    /\ cache = {}
    /\ history = [u \in Users |-> <<>>]
    /\ replied = {}
    /\ appended = {}
    /\ pc = "format"
    /\ batchLen = 0
    /\ idx = 0
    /\ response = NoResponse
    /\ cur = NoEvent
    /\ out = NoOut
    /\ dr = DefaultDetection
    /\ composed = <<>>
    /\ tpc = [t \in Threads |-> "off"]
    /\ tev = [t \in Threads |-> NoEvent]
    /\ tout = [t \in Threads |-> NoThreadOut]
    /\ client = NoClient
    /\ strategy = "none"
    /\ analysis = NoAnalysis
    /\ unformatted \in RawInputs
    /\ formatted = NoFormatted
    /\ message_text = <<>>
    /\ keyword_result = NoKeywordResult
    /\ events = <<>>
    /\ log = <<>>

\* format_conversation(messages, "json", user_id) and format_conversation(messages,
\* "xml", user_id) on the same arguments
Format ==
    /\ pc = "format"
    /\ formatted' = [parsed |-> ParseAll(unformatted.messages),
                     json |-> FormatConversation(unformatted.messages, "json", unformatted.user_id),
                     xml |-> FormatConversation(unformatted.messages, "xml", unformatted.user_id)]
    /\ pc' = "formatted"
    /\ UNCHANGED <<dispatcher, client, strategy, analysis, unformatted, message_text,
                   keyword_result, events, log>>

SpecFormat == InitFormat /\ [][Format]_vars

\* C14 as stated: "21:49 林國晴 Hina https://example.com" parses to type message, time
\* "21:49", sender "林國晴 Hina" and content "https://example.com", and
\* "2025.04.22 星期二" parses to type date_marker with date "2025.04.22 星期二".
C14_Claim ==
    pc = "formatted" =>
        /\ unformatted.messages = <<ExampleMessage>> =>
              formatted.parsed = <<[type |-> TypeText("message"), time |-> TimeTok,
                                    sender |-> NameTok \o <<" ">> \o WordTok,
                                    content |-> UrlTok]>>
        /\ unformatted.messages = <<ExampleDate>> =>
              formatted.parsed = <<[type |-> TypeText("date_marker"), date |-> ExampleDate]>>

\* what a document says: the entries in order, each as its set of fields, and the two
\* metadata values
JsonContent(doc) ==
    [entries |-> [i \in 1..Len(doc.conversation) |->
                    {<<k, doc.conversation[i][k]>> : k \in DOMAIN doc.conversation[i]}],
     message_count |-> doc.metadata.message_count,
     current_user_id |-> doc.metadata.current_user_id]

XmlContent(doc) ==
    LET meta == doc.children[1].children
        msgs == doc.children[2].children
        TextsOf(tag) == {meta[i].text : i \in {j \in 1..Len(meta) : meta[j].tag = tag}}
        TextOf(tag) == CHOOSE t \in TextsOf(tag) : TRUE
    IN  [entries |-> [i \in 1..Len(msgs) |->
                        {<<msgs[i].children[j].tag, msgs[i].children[j].text>> :
                            j \in 1..Len(msgs[i].children)}],
         message_count |-> DecimalValue(TextOf("message_count")),
         current_user_id |-> IF TextsOf("current_user_id") = {} THEN None
                             ELSE TextOf("current_user_id")]

\* C15 as stated: for every list of messages and every user id the XML document and
\* the JSON document hold the same entries in the same order and the same
\* message_count and current_user_id.
C15_Claim == pc = "formatted" => JsonContent(formatted.json) = XmlContent(formatted.xml)

\* the lines that are not empty after trimming, and the k-th of them
Kept(messages) == {i \in 1..Len(messages) : Strip(messages[i]) # <<>>}
KthKept(messages, k) ==
    CHOOSE i \in Kept(messages) : Cardinality({j \in Kept(messages) : j <= i}) = k

\* the rule that applies to a line: the date marker first, then the message, then
\* unknown
RuleOf(line) ==
    IF DateMatch(line) > 0 THEN "date_marker"
    ELSE IF MsgSplits(line) # {} THEN "message"
    ELSE "unknown"

-----------------------------------------------------------------------------
(* LocalDetectionStrategy._keyword_analysis. A float is the fraction it stands for. *)

Frac(n, d) == [num |-> n, den |-> d]
FracEq(x, y) == x.num * y.den = y.num * x.den
FracLess(x, y) == x.num * y.den < y.num * x.den
FracAdd(x, y) == Frac(x.num * y.den + y.num * x.den, x.den * y.den)
FracMul(x, y) == Frac(x.num * y.num, x.den * y.den)
FracMin(x, y) == IF FracLess(y, x) THEN y ELSE x           \* min(x, y)
Max(a, b) == IF a >= b THEN a ELSE b

\* self.keywords, as the data file configures them: "ab", "co", "林國"
Keywords == << <<"a", "b">>, <<"c", "o">>, <<"lin", "guo">> >>

\* re.IGNORECASE
Lower(c) == CASE c = "A" -> "a" [] c = "B" -> "b" [] c = "H" -> "h" [] OTHER -> c

\* \b between s[i] and s[i+1]: a word character on exactly one side
WordAt(s, i) == i \in 1..Len(s) /\ IsWord(s[i])
Boundary(s, i) == WordAt(s, i) # WordAt(s, i + 1)

\* line 80: re.search(r'\b' + re.escape(keyword) + r'\b', message_text, re.IGNORECASE)
Found(keyword, s) ==
    \E i \in 0..(Len(s) - Len(keyword)) :
        /\ \A j \in 1..Len(keyword) : Lower(s[i + j]) = Lower(keyword[j])
        /\ Boundary(s, i)
        /\ Boundary(s, i + Len(keyword))

RECURSIVE FoundKeywords(_, _)
\* lines 79-82: the keywords found, in the order of the list
FoundKeywords(keywords, s) ==
    IF keywords = <<>> THEN <<>>
    ELSE (IF Found(Head(keywords), s) THEN <<Head(keywords)>> ELSE <<>>)
         \o FoundKeywords(Tail(keywords), s)

\* line 85: len(message_text.split())
TotalWords(s) ==
    Cardinality({i \in 1..Len(s) : ~IsSpace(s[i]) /\ (i = 1 \/ IsSpace(s[i - 1]))})

\* line 86
KeywordDensity(keyword_count, total_words) == Frac(keyword_count, Max(total_words, 1))

\* mutant: the score is not capped
RiskScore_Uncapped(keyword_count, keyword_density) ==
    FracAdd(FracMul(Frac(keyword_count, 1), Frac(1, 10)),
            FracMul(keyword_density, Frac(2, 1)))

\* line 89
RiskScore(keyword_count, keyword_density) ==
    FracMin(Frac(1, 1),
            FracAdd(FracMul(Frac(keyword_count, 1), Frac(1, 10)),
                    FracMul(keyword_density, Frac(2, 1))))

\* lines 64-98
KeywordAnalysis(s) ==
    LET found_keywords == FoundKeywords(Keywords, s)
        keyword_count == Len(found_keywords)
        keyword_density == KeywordDensity(keyword_count, TotalWords(s))
    IN  [found_keywords |-> found_keywords,
         keyword_count |-> keyword_count,
         keyword_density |-> keyword_density,
         risk_score |-> RiskScore(keyword_count, keyword_density)]

-----------------------------------------------------------------------------
(* Keyword analysis on its own: the message is drawn, then analysed *)

MaxHead == 2        \* varied words at the head of a generated message
MaxWords == 20      \* words of the longest generated message

\* a keyword, in capitals, inside a longer word, before punctuation, another keyword,
\* a word that is none, a keyword of ideographs alone and inside running text
KeywordWords ==
    {<<"a", "b">>, <<"A", "B">>, <<"a", "b", "x">>, <<"a", "b", ".">>, <<"c", "o">>,
     <<"x">>, <<"lin", "guo">>, NameTok}

RECURSIVE JoinWords(_)
JoinWords(ws) ==
    IF ws = <<>> THEN <<>>
    ELSE IF Len(ws) = 1 THEN ws[1]
    ELSE ws[1] \o <<" ">> \o JoinWords(Tail(ws))

Filler(n) == [i \in 1..n |-> <<"x">>]

KeywordMessages ==
    {JoinWords(head \o Filler(n)) :
        head \in SeqsUpTo(KeywordWords, MaxHead), n \in {0, MaxWords - 2, MaxWords - 1}}
    \cup {<<" ", " ">>}

InitKeyword ==
    /\ cache = {}
    /\ history = [u \in Users |-> <<>>]
    /\ replied = {}
    /\ appended = {}
    /\ pc = "score"
    /\ batchLen = 0
    /\ idx = 0
    /\ response = NoResponse
    /\ cur = NoEvent
    /\ out = NoOut
    /\ dr = DefaultDetection
    /\ composed = <<>>
    /\ tpc = [t \in Threads |-> "off"]
    /\ tev = [t \in Threads |-> NoEvent]
    /\ tout = [t \in Threads |-> NoThreadOut]
    /\ client = NoClient
    /\ strategy = "none"
    /\ analysis = NoAnalysis
    /\ unformatted = NoRaw
    /\ formatted = NoFormatted
    /\ message_text \in KeywordMessages
    /\ keyword_result = NoKeywordResult
    /\ events = <<>>
    /\ log = <<>>

Score ==
    /\ pc = "score"
    /\ keyword_result' = KeywordAnalysis(message_text)
    /\ pc' = "scored"
    /\ UNCHANGED <<dispatcher, client, strategy, analysis, unformatted, formatted,
                   message_text, events, log>>

SpecKeyword == InitKeyword /\ [][Score]_vars

\* C16: keyword_count is the number of configured keywords found in the message (as
\* whole words, whatever the case), keyword_density is keyword_count / max(word_count,
\* 1), risk_score is min(1.0, keyword_count*0.1 + keyword_density*2) and lies in
\* [0, 1]; with 20 words and one keyword found they are 1, 0.05 and 0.2.
C16_KeywordScore ==
    pc = "scored" =>
        LET count == keyword_result.keyword_count
            density == keyword_result.keyword_density
            risk == keyword_result.risk_score
            words == TotalWords(message_text)
            sum == Frac(count * density.den + 20 * density.num, 10 * density.den)
        IN  /\ count = Cardinality({i \in 1..Len(Keywords) : Found(Keywords[i], message_text)})
            /\ density.den > 0
            /\ density.num * (IF words = 0 THEN 1 ELSE words) = count * density.den
            /\ risk.den > 0
            /\ IF sum.num >= sum.den THEN risk.num = risk.den ELSE FracEq(risk, sum)
            /\ 0 <= risk.num /\ risk.num <= risk.den
            /\ (words = 20 /\ count = 1) =>
                    FracEq(density, Frac(5, 100)) /\ FracEq(risk, Frac(2, 10))

\* twenty words, the first of them the one keyword found
C16_Witness ==
    /\ pc = "scored"
    /\ TotalWords(message_text) = 20
    /\ keyword_result.found_keywords = << <<"a", "b">> >>
    /\ FracEq(keyword_result.keyword_density, Frac(5, 100))
    /\ FracEq(keyword_result.risk_score, Frac(2, 10))

-----------------------------------------------------------------------------
(* The detection layer: AnalysisApiClient, the two strategies, DetectionService *)

Client(given, url) == [given |-> given, api_url |-> url]
\* an api_url of whitespace only; Absent stands for None and for ""
Blank == "  "
\* no client, a client with its URL, a client built without a URL or with a blank one
Clients == {NoClient, Client(TRUE, "url"), Client(TRUE, Absent), Client(TRUE, Blank)}

\* AnalysisApiClient.is_configured, lines 76-78
IsConfigured(cl) == cl.api_url # Absent /\ cl.api_url # Blank

\* what the endpoint does with the POST: it answers with a status and a body that is
\* JSON or not, or the transport fails (no connection, timeout of 5 s)
Remote(status, json, answer) == [status |-> status, json |-> json, answer |-> answer]
TransportFailure == Remote(0, FALSE, NoResult)
RemoteAnswers ==
    {Remote(StatusOK, TRUE, DetectionResult(PlainReply(Lit("hello")), "high", 820, "scam")),
     Remote(StatusOK, TRUE, DetectionResult(PlainReply(<<>>), "", 100, "safe")),
     Remote(StatusOK, FALSE, NoResult),
     Remote(DefaultErrorStatus, TRUE, DefaultDetection),
     TransportFailure}

\* what the agent does with the conversation: it answers, or it raises; a key that is
\* missing from its answer is "" (risk_level), NoConfidence or NoReply
NoConfidence == 0 - 1
NoReply == Lit("no reply key")
Agent(raises, confidence, risk_level, reply) ==
    [raises |-> raises, confidence |-> confidence, risk_level |-> risk_level,
     reply |-> reply]
AgentAnswers ==
    {Agent(TRUE, NoConfidence, "", NoReply),
     Agent(FALSE, 900, "high", Lit("agent says scam")),
     Agent(FALSE, 500, "mid", Lit("agent says maybe")),
     Agent(FALSE, 100, "low", NoReply),
     Agent(FALSE, 700, "unheard of", Lit("agent says something")),
     Agent(FALSE, NoConfidence, "", NoReply)}

World(remote, agent) == [remote |-> remote, agent |-> agent]

\* chat_history=None, which "not chat_history" takes like the empty list (line 128)
NoHistory == <<>>

\* the agent was not called / was called with the formatted messages
NoConversation == [called |-> FALSE, messages |-> <<>>, document |-> <<>>]
Conversation(messages, document) ==
    [called |-> TRUE, messages |-> messages, document |-> document]

\* what a call of analyze / analyze_text / analyze_message did: the result or the
\* exception, the strategy it came from, the POSTs sent, what the agent was given
Call(raised, result, by, posts, conversation) ==
    [raised |-> raised, result |-> result, by |-> by, posts |-> posts,
     conversation |-> conversation]

\* mutant: a failed POST gives the default result
HttpResult_Defaulting(remote) ==
    IF remote.status = StatusOK /\ remote.json
    THEN Call(FALSE, remote.answer, "api", 1, NoConversation)
    ELSE Call(FALSE, DefaultDetection, "api", 1, NoConversation)

\* AnalysisApiClient.analyze_text, lines 48-67: response.json() on status 200, an
\* exception otherwise
HttpResult(remote) ==
    IF remote.status = StatusOK /\ remote.json
    THEN Call(FALSE, remote.answer, "api", 1, NoConversation)
    ELSE Call(TRUE, NoResult, "api", 1, NoConversation)

\* AnalysisApiClient.analyze_text, lines 44-67
AnalyzeText(cl, remote) ==
    IF cl.api_url = Absent THEN Call(TRUE, NoResult, "api", 0, NoConversation)   \* 44-46
    ELSE IF cl.api_url = Blank
    THEN Call(TRUE, NoResult, "api", 0, NoConversation)   \* requests.post raises: 64-67
    ELSE HttpResult(remote)

\* ApiDetectionStrategy.analyze: the body of the answer, or the failure
ApiAnalyze(cl, text, user_id, user_profile, remote) == AnalyzeText(cl, remote)

\* lines 145-148, in thousandths
CombinedConfidence(risk_score, agent) ==
    LET confidence == IF agent.confidence = NoConfidence THEN 500 ELSE agent.confidence
    IN  (4 * ((1000 * risk_score.num) \div risk_score.den) + 6 * confidence) \div 10

\* mutant: a level that is not known gets a label of its own
Label_Unknown(agent) ==
    CASE agent.risk_level = "high" -> "scam"
      [] agent.risk_level = "mid" -> "suspicious"
      [] agent.risk_level = "low" -> "safe"
      [] OTHER -> "unknown"

\* lines 151-159
Label(agent) ==
    CASE agent.risk_level = "high" -> "scam"
      [] agent.risk_level = "mid" -> "suspicious"
      [] OTHER -> "safe"

LocalDefaultReply == Lit("local_default_reply")
LocalWarning == Lit("local_warning")

\* lines 162-166
LocalReply(agent) ==
    LET reply == IF agent.reply = NoReply THEN LocalDefaultReply ELSE agent.reply
    IN  IF Label(agent) = "scam" THEN LocalWarning \o BlankLine \o reply ELSE reply

\* mutant: the agent's risk level is handed on as the risk_level of the result
ReturnedResult_WithLevel(agent, confidence) ==
    DetectionResult(PlainReply(LocalReply(agent)), agent.risk_level, confidence,
                    Label(agent))

\* lines 172-180: the dict analyze returns has the keys label, confidence, reply and
\* analysis; the agent's risk level is inside analysis only, there is no risk_level key
ReturnedResult(agent, confidence) ==
    DetectionResult(PlainReply(LocalReply(agent)), "", confidence, Label(agent))

\* LocalDetectionStrategy.analyze, lines 119-184
LocalAnalyze(text, user_id, chat_history, user_profile, agent) ==
    IF text = <<>>
    THEN Call(TRUE, NoResult, "local", 0, NoConversation)              \* line 125
    ELSE LET messages == IF chat_history = NoHistory THEN <<text>> ELSE chat_history
             scored == KeywordAnalysis(text)
             handed == Conversation(messages,
                                   FormatConversation(messages, "json", user_id))
         IN  IF agent.raises
             THEN Call(TRUE, NoResult, "local", 0, handed)              \* line 184
             ELSE Call(FALSE,
                       ReturnedResult(agent, CombinedConfidence(scored.risk_score, agent)),
                       "local", 0, handed)

\* DetectionService.__init__, lines 29-35
SelectStrategy(cl) == IF cl.given THEN "api" ELSE "local"

\* line 59: the call of the active strategy; chat_history is not handed on
Delegate(strat, cl, text, user_id, chat_history, user_profile, world) ==
    IF strat = "api" THEN ApiAnalyze(cl, text, user_id, user_profile, world.remote)
    ELSE LocalAnalyze(text, user_id, NoHistory, user_profile, world.agent)

\* mutant: a failure of the active strategy is answered by the local strategy
AnalyzeMessage_Fallback(strat, cl, text, user_id, chat_history, user_profile, world) ==
    LET o == Delegate(strat, cl, text, user_id, chat_history, user_profile, world)
    IN  IF o.raised /\ text # <<>>
        THEN LocalAnalyze(text, user_id, NoHistory, user_profile,
                          Agent(FALSE, 900, "low", NoReply))
        ELSE o

\* DetectionService.analyze_message, lines 55-64: the result of the strategy, or its
\* exception raised again
AnalyzeMessage(strat, cl, text, user_id, chat_history, user_profile, world) ==
    Delegate(strat, cl, text, user_id, chat_history, user_profile, world)

\* what process_message sees of the call (lines 144-165)
ToOutcome(call) ==
    IF call.raised THEN Outcome("error", NoResult) ELSE Outcome("result", call.result)

-----------------------------------------------------------------------------
(* The detection service behind process_message: the service is constructed, then *)
(* text messages are handled one after the other.                                  *)

ServiceTexts == {<<>>, <<"a", "b">>, WordTok}

\* only the collaborator the active strategy calls matters
WorldsFor(strat) ==
    IF strat = "api" THEN {World(r, Agent(TRUE, NoConfidence, "", NoReply)) : r \in RemoteAnswers}
    ELSE {World(TransportFailure, a) : a \in AgentAnswers}

InitService ==
    /\ cache = {}
    /\ history = [u \in Users |-> <<>>]
    /\ replied = {}
    /\ appended = {}
    /\ pc = "construct"
    /\ batchLen = 0
    /\ idx = 0
    /\ response = NoResponse
    /\ cur = NoEvent
    /\ out = NoOut
    /\ dr = DefaultDetection
    /\ composed = <<>>
    /\ tpc = [t \in Threads |-> "off"]
    /\ tev = [t \in Threads |-> NoEvent]
    /\ tout = [t \in Threads |-> NoThreadOut]
    /\ client \in Clients
    /\ strategy = "none"
    /\ analysis = NoAnalysis
    /\ unformatted = NoRaw
    /\ formatted = NoFormatted
    /\ message_text = <<>>
    /\ keyword_result = NoKeywordResult
    /\ events = <<>>
    /\ log = <<>>

\* DetectionService(analysis_client)
Construct ==
    /\ pc = "construct"
    /\ strategy' = SelectStrategy(client)
    /\ pc' = "serve"
    /\ UNCHANGED <<dispatcher, client, analysis, unformatted, formatted, message_text,
                   keyword_result, events, log>>

\* process_message(user_id, message_text, reply_token) with this service
Serve ==
    /\ pc = "serve"
    /\ HistTotal(history) < MaxHist
    /\ \E user \in Users, text \in ServiceTexts, world \in WorldsFor(strategy) :
        LET snapshot == GetChatHistory(AddMessage(history, user, text), user)
            inner == Delegate(strategy, client, text, <<user>>, snapshot, None, world)
            call == AnalyzeMessage(strategy, client, text, <<user>>, snapshot, None, world)
            r == ProcessMessage(history, user, text, "tk", Env("ok", ToOutcome(call)))
        IN  /\ history' = r.history
            /\ analysis' = [called |-> TRUE, text |-> text, user |-> user,
                            chat_history |-> snapshot, world |-> world,
                            inner |-> inner, outcome |-> call,
                            replies |-> r.replies, raised |-> r.raised]
    /\ UNCHANGED <<cache, replied, appended, pc, batchLen, idx, response, cur, out, dr,
                   composed, tpc, tev, tout, client, strategy, unformatted, formatted,
                   message_text, keyword_result, events, log>>

NextService == Construct \/ Serve

SpecService == InitService /\ [][NextService]_vars

\* C11: the strategy chosen at construction stays the active one after any sequence of
\* analyze_message calls, also after calls in which it raised; an exception of the
\* strategy reaches the caller as it is, never replaced by another strategy's result.
C11_StrategyFixed ==
    /\ [][strategy # "none" => strategy' = strategy]_vars
    /\ [](analysis.called =>
            /\ strategy = SelectStrategy(client)
            /\ analysis.outcome.by = strategy
            /\ analysis.inner.raised =>
                    analysis.outcome.raised /\ analysis.outcome = analysis.inner)

\* the remote strategy raised in a call that followed an earlier call, and is kept
C11_Witness ==
    /\ analysis.called /\ strategy = "api" /\ analysis.outcome.raised
    /\ analysis.text # <<>>
    /\ Len(analysis.chat_history) >= 2

\* the endpoint was asked: the strategy is the remote one and the client has its URL
Asked == analysis.called /\ strategy = "api" /\ IsConfigured(client)

\* C12 as stated: a non-200 answer or a transport failure is raised out of the client
\* and the service, and the orchestrator replies with the default apology; every
\* answer with status 200 is returned unchanged as the detection result.
C12_Original ==
    Asked =>
        IF analysis.world.remote.status = StatusOK
        THEN ~analysis.outcome.raised /\ analysis.outcome.result = analysis.world.remote.answer
        ELSE /\ analysis.outcome.raised
             /\ analysis.outcome.posts = 1
             /\ analysis.outcome.by = "api"
             /\ analysis.replies = <<Reply("tk", ApologyDetect)>>

\* C12 amended: a non-200 answer, a transport failure, or a 200 answer whose body is
\* not JSON is raised out of the client and the service after the one POST (no
\* default result inside them, no retry, no other strategy), and the orchestrator
\* replies with the default apology; a 200 answer with a JSON body is returned
\* unchanged as the detection result.
C12_RemoteFailurePropagates ==
    Asked =>
        LET remote == analysis.world.remote
            o == analysis.outcome
        IN  /\ o.posts = 1
            /\ o.by = "api"
            /\ ~o.conversation.called
            /\ IF remote.status = StatusOK /\ remote.json
               THEN ~o.raised /\ o.result = remote.answer
               ELSE /\ o.raised
                    /\ analysis.replies = <<Reply("tk", ApologyDetect)>>
                    /\ ~analysis.raised

\* the endpoint answers with a status that is not 200
C12_Witness ==
    /\ Asked /\ analysis.world.remote.status = DefaultErrorStatus
    /\ analysis.outcome.raised /\ analysis.replies = <<Reply("tk", ApologyDetect)>>

\* C24 as stated: the service uses the remote strategy exactly when an endpoint URL is
\* configured; a service constructed with a client whose URL is absent or blank
\* (is_configured() false) uses the local strategy.
C24_Claim ==
    strategy # "none" =>
        (strategy = "api" <=> (client.given /\ IsConfigured(client)))

\* the local strategy returned a result
LocalResult == analysis.called /\ strategy = "local" /\ ~analysis.outcome.raised

\* C25: the local strategy maps the agent's risk_level high to the label scam, mid to
\* suspicious, low and every other or missing value to safe, and its reply is the
\* agent's reply (or the default one) behind the warning banner exactly when the label
\* is scam.
C25_LabelAndWarning ==
    LocalResult =>
        LET agent == analysis.world.agent
            result == analysis.outcome.result
            base == IF agent.reply = NoReply THEN LocalDefaultReply ELSE agent.reply
        IN  /\ agent.risk_level = "high" => result.label = "scam"
            /\ agent.risk_level = "mid" => result.label = "suspicious"
            /\ agent.risk_level \notin {"high", "mid"} => result.label = "safe"
            /\ result.reply.raw =
                    IF result.label = "scam" THEN LocalWarning \o BlankLine \o base ELSE base
            /\ (result.reply.raw[1] = LocalWarning[1]) <=> (result.label = "scam")

\* the agent found a high risk: the label is scam and the banner leads the reply
C25_Witness ==
    /\ LocalResult /\ analysis.world.agent.risk_level = "high"
    /\ analysis.outcome.result.label = "scam"
    /\ analysis.outcome.result.reply.raw[1] = LocalWarning[1]

\* the text begins with the banner of line 221 or the note of line 225
BeginsWithBanner(text) == text # <<>> /\ text[1].k \in {"warning", "note"}

\* C32: a result of the local strategy has no top-level risk_level, so the reply that
\* process_message sends for it never begins with the confidence banner or the caution
\* note of the composition rule, whatever the agent's risk level and the combined
\* confidence: the text sent is the strategy's reply, which carries at most the
\* strategy's own warning prefix.
C32_NoBannerOnLocalResult ==
    LocalResult =>
        /\ analysis.outcome.result.risk_level = ""
        /\ Len(analysis.replies) = 1
        /\ ~BeginsWithBanner(analysis.replies[1].text)
        /\ analysis.replies[1].text = LocalReply(analysis.world.agent)

\* the agent said high and the combined confidence is above the threshold of line 220:
\* the reply begins with the warning of the strategy, not with the banner
C32_Witness ==
    /\ LocalResult /\ analysis.world.agent.risk_level = "high"
    /\ analysis.outcome.result.confidence >= 600
    /\ Len(analysis.replies) = 1
    /\ analysis.replies[1].text[1] = LocalWarning[1]
    /\ ~BeginsWithBanner(analysis.replies[1].text)

\* C19 as stated: for a text message of a user with earlier messages the conversation
\* the local strategy formats and hands to the agent is the whole history snapshot of
\* the orchestrator; the current message alone is used only when the history is empty.
C19_Claim ==
    (analysis.called /\ strategy = "local" /\ analysis.outcome.conversation.called) =>
        analysis.outcome.conversation.messages =
            IF analysis.chat_history = <<>> THEN <<analysis.text>> ELSE analysis.chat_history

-----------------------------------------------------------------------------
(* handle_webhook on one body whose events array is kept, with the log of the side *)
(* effects in the order they happen.                                                *)

\* a text message, an image message, a redelivered text message, an event that fails
\* validation, an event that is not a message, a second text message
BatchEvents ==
    {Event(1, "message", FALSE, "tk", "u1", Msg("text", "a", Absent, Absent)),
     Event(2, "message", FALSE, "tk", "u2", Msg("image", Absent, "m1", Absent)),
     Event(NoId, "message", TRUE, Absent, "u1", Msg("text", "b", Absent, Absent)),
     Event(NoId, Absent, FALSE, Absent, Absent, NoMessage),
     Event(2, "follow", FALSE, Absent, Absent, NoMessage),
     Event(NoId, "message", FALSE, "tk", "u2", Msg("text", "b", Absent, Absent))}

InitBatch ==
    /\ cache = {}
    /\ history = [u \in Users |-> <<>>]
    /\ replied = {}
    /\ appended = {}
    /\ pc = "batch"
    /\ events \in SeqsUpTo(BatchEvents, MaxBatch)
    /\ batchLen = Len(events)
    /\ idx = 0
    /\ response = NoResponse
    /\ cur = NoEvent
    /\ out = NoOut
    /\ dr = DefaultDetection
    /\ composed = <<>>
    /\ tpc = [t \in Threads |-> "off"]
    /\ tev = [t \in Threads |-> NoEvent]
    /\ tout = [t \in Threads |-> NoThreadOut]
    /\ client = NoClient
    /\ strategy = "none"
    /\ analysis = NoAnalysis
    /\ unformatted = NoRaw
    /\ formatted = NoFormatted
    /\ message_text = <<>>
    /\ keyword_result = NoKeywordResult
    /\ log = <<>>

\* mutant: the loop walks the array from its end
EventAt_Reversed(evs, k) == evs[Len(evs) + 1 - k]

\* line 95: the k-th iteration of "for event in events"
EventAt(evs, k) == evs[k]

\* one side effect of the event at position pos
Effect(pos, kind, e) == [pos |-> pos, kind |-> kind, event |-> e]

\* the side effects of one _process_event in the order they happen: the history
\* append (line 133 or 158), the detection call (line 145), the reply calls
Effects(pos, e, h, r) ==
    (IF r.history # h THEN <<Effect(pos, "append", e)>> ELSE <<>>)
    \o [i \in 1..Len(r.detects) |-> Effect(pos, "detect", e)]
    \o [i \in 1..Len(r.replies) |-> Effect(pos, "reply", e)]

\* lines 91-94: the body has no events
BatchEmpty ==
    /\ pc = "batch" /\ events = <<>>
    /\ response' = Acknowledge(Len(events))
    /\ pc' = "idle"
    /\ UNCHANGED <<cache, history, replied, appended, batchLen, idx, cur, out, dr,
                   composed, tpc, tev, tout, ext>>

\* lines 95-98 and 104-107: one iteration of the loop, and what ends the loop
BatchStep ==
    /\ pc = "batch" /\ idx < Len(events)
    /\ LET e == EventAt(events, idx + 1)
       IN  \E env \in EnvsFor(e) : \E r \in Dispatch(cache, history, e, env) :
            /\ cache' = r.cache
            /\ history' = r.history
            /\ log' = log \o Effects(idx + 1, e, history, r)
            /\ IF AbortsBatch(r.status)
               THEN /\ response' = Response("error", WebhookErrorStatus(r.status), r.cause)
                    /\ pc' = "idle"
                    /\ idx' = idx
               ELSE /\ idx' = idx + 1
                    /\ IF idx + 1 = Len(events)
                       THEN response' = Acknowledge(Len(events)) /\ pc' = "idle"
                       ELSE response' = response /\ pc' = pc
    /\ UNCHANGED <<replied, appended, batchLen, cur, out, dr, composed, tpc, tev, tout,
                   client, strategy, analysis, unformatted, formatted, message_text,
                   keyword_result, events>>

NextBatch == BatchEmpty \/ BatchStep

SpecBatch == InitBatch /\ [][NextBatch]_vars

\* C13: the events of a body are processed in array order, and every side effect
\* (history append, detection, reply) of the event at position i comes before every
\* side effect of an event at a later position.
C13_BatchOrder ==
    \A n \in 1..Len(log) :
        /\ log[n].pos \in 1..Len(events)
        /\ log[n].event = events[log[n].pos]
        /\ log[n].pos <= idx + 1
        /\ \A m \in 1..(n - 1) : log[m].pos <= log[n].pos

\* a body of two different events: the first was answered, then the second was stored
C13_Witness ==
    /\ pc = "idle" /\ Len(events) = 2 /\ events[1] # events[2] /\ idx = 2
    /\ \E n \in 1..Len(log) : log[n].pos = 1 /\ log[n].kind = "reply"
    /\ \E n \in 1..Len(log) : log[n].pos = 2 /\ log[n].kind = "append"

-----------------------------------------------------------------------------
(* Further claims about the dispatcher and the orchestrator, one request at a time *)

\* the texts that do not depend on the message or on the detection result
FixedReplies == {ApologyEvent, ApologyDetect, Guidance, ImageReply, UnsupportedReply}

\* the parts of the messages of the exceptions
ErrorSegments ==
    {ErrorMessage(c)[n] : c \in {"validation", "internal", "orchestrator"}, n \in 1..2}

\* the text is what _generate_response composes from the reply of the detection result
FromDetection(text) ==
    /\ out.env.detect.kind = "result"
    /\ Body(text) = OrDefault(ExtractReply(out.env.detect.result.reply))

\* C17: every text handed to reply_message is one of the fixed apology, guidance and
\* unsupported-type messages (the one for a file names the file) or is composed from
\* the reply of the detection result; no part of the message of a caught exception is
\* part of a reply, on any path of process_event and process_message.
C17_NoErrorTextInReplies ==
    Processed =>
        \A i \in 1..Len(out.replies) :
            LET text == out.replies[i].text
            IN  /\ \/ text \in FixedReplies
                   \/ cur.message.mtype = "file" /\ text = FileReply(FileName(cur.message))
                   \/ FromDetection(text)
                /\ \A j \in 1..Len(text) :
                        /\ text[j] \notin ErrorSegments
                        /\ \A n \in 1..Len(out.error) : text[j] # out.error[n]

\* an error of the orchestrator left _process_event, and the user got the apology
C17_Witness ==
    /\ Processed /\ out.forwarded /\ out.status # 0 /\ out.error # <<>>
    /\ out.env.detect.kind = "malformed"
    /\ out.replies = <<Reply(cur.replyToken, ApologyEvent)>>

\* C18: a body whose events array is missing or empty is accepted: handle_webhook
\* returns "OK" and changes neither the cache nor the history, and no detection and
\* no reply call is made.
C18_EmptyBodyAccepted ==
    [][(pc = "idle" /\ pc' = "idle" /\ batchLen' = 0 /\ response'.cause # "json") =>
            /\ response' = Response("OK", StatusOK, "none")
            /\ UNCHANGED <<cache, history, replied, appended, out>>]_vars

\* a body without events was accepted after earlier bodies filled cache and history
C18_Witness ==
    /\ pc = "idle" /\ batchLen = 0 /\ response = Response("OK", StatusOK, "none")
    /\ cache # {} /\ HistTotal(history) > 0

\* C20: in the text branch the message is appended to the user's history before the
\* snapshot is read and before detection is invoked: the snapshot handed to the
\* detection service is the user's history ending with this message, and the append
\* stays when the detection fails.
C20_AppendBeforeSnapshot ==
    (Processed /\ out.detects # <<>>) =>
        LET snapshot == out.detects[1].history
            text == cur.message.text
        IN  /\ Len(out.detects) = 1
            /\ Len(snapshot) >= 1 /\ snapshot[Len(snapshot)] = text
            /\ snapshot = history[cur.userId]
            /\ out.appends = [NoAppends EXCEPT ![cur.userId] = <<text>>]
            /\ out.extends

\* the detection failed for the second message of a user: both messages are stored
C20_Witness ==
    /\ Processed /\ out.detects # <<>> /\ out.env.detect.kind = "error"
    /\ Len(history[cur.userId]) >= 2
    /\ history[cur.userId][Len(history[cur.userId])] = cur.message.text

\* C28 as stated: right after the dispatcher has recorded an event id, on the
\* redelivery path or on the fresh path, the id is in the cache, also when the
\* insertion pushed the cache over its cap: the eviction removes another member.
C28_Claim ==
    (Processed /\ cur.id # NoId /\ (out.path = "redelivery" \/ out.forwarded)) =>
        out.recorded

\* C29 as stated: when the dispatcher rejects an event with a validation failure, on
\* the fresh path or on the redelivery path, the cache and the history are as they
\* were before the event and the orchestrator was not invoked.
C29_Claim ==
    [][(pc = "event" /\ pc' = "after" /\ out'.cause = "validation") =>
            /\ cache' = cache
            /\ history' = history
            /\ ~out'.forwarded]_vars

\* C30 as stated: on the fresh path the event id was recorded before the orchestrator
\* was invoked and is still recorded when the orchestrator has raised, so that a later
\* delivery of the id finds it in the cache.
C30_Claim ==
    (Processed /\ out.forwarded /\ out.cause = "orchestrator" /\ cur.id # NoId) =>
        out.recorded

-----------------------------------------------------------------------------
(* The orchestrator on its own: one call of process_event (line_webhook.py line   *)
(* 189) with a message of any type, whatever the history store, the detection    *)
(* service and the reply call do.                                                *)

\* the history before the call
Histories ==
    {[u \in Users |-> <<>>], [u \in Users |-> IF u = "u1" THEN <<"b">> ELSE <<>>]}

\* a fresh message event with its reply token, its user and any message
OrchestratorEvents ==
    {Event(1, "message", FALSE, k, u, m) :
        k \in ReplyTokens, u \in Users, m \in Messages \ {NoMessage}}

OrchestratorEnvs == {WithReply(env, o) : env \in Envs, o \in ReplyOutcomes}

InitOrchestrator ==
    /\ cache = {}
    /\ history \in Histories
    /\ replied = {}
    /\ appended = {}
    /\ pc = "event"
    /\ batchLen = 1
    /\ idx = 0
    /\ response = NoResponse
    /\ cur \in OrchestratorEvents
    /\ out = NoOut
    /\ dr = DefaultDetection
    /\ composed = <<>>
    /\ tpc = [t \in Threads |-> "off"]
    /\ tev = [t \in Threads |-> NoEvent]
    /\ tout = [t \in Threads |-> NoThreadOut]
    /\ ExtIdle

\* conversation_service.process_event(user_id, reply_token, "message", message)
Orchestrate ==
    /\ pc = "event"
    /\ \E env \in OrchestratorEnvs :
        LET r == Forward(cache, history, cur, env)
        IN  /\ history' = r.history
            /\ out' = [NoOut EXCEPT !.path = r.path, !.forwarded = r.forwarded,
                                    !.cause = r.cause, !.status = r.status,
                                    !.replies = r.replies, !.detects = r.detects,
                                    !.appends = Appends(history, r.history),
                                    !.extends = Extends(history, r.history),
                                    !.env = env, !.error = r.error]
    /\ pc' = "after"
    /\ UNCHANGED <<cache, replied, appended, batchLen, idx, response, cur, dr, composed,
                   tpc, tev, tout, ext>>

SpecOrchestrator == InitOrchestrator /\ [][Orchestrate]_vars

\* an exception leaves the text branch before any reply call: the text is missing, the
\* history store raises, or the detection result cannot be composed
EscapesTextBranch ==
    /\ cur.message.mtype = "text"
    /\ \/ cur.message.text = Absent
       \/ out.env.store # "ok"
       \/ out.env.detect.kind = "malformed"

\* C21: when an exception escapes the text branch, process_event makes one reply call
\* with the generic apology and then raises an application-level error to its caller;
\* the error is raised whatever becomes of the apology call.
C21_ApologyThenError ==
    (Processed /\ out.forwarded /\ EscapesTextBranch) =>
        /\ out.replies = <<Reply(cur.replyToken, ApologyEvent)>>
        /\ out.cause = "orchestrator"
        /\ out.status = DefaultErrorStatus

\* the append raised and the apology could not be delivered
C21_Witness ==
    /\ Processed /\ out.forwarded /\ cur.message.mtype = "text" /\ cur.message.text # Absent
    /\ out.env.store = "add_fails" /\ out.env.reply = "unreachable"
    /\ out.status = DefaultErrorStatus /\ Len(out.replies) = 1

\* C22: when the detection service raises the bad-input error, process_message makes
\* exactly one reply call, with the guidance message, after the one detection call, and
\* returns without raising.
C22_ValidationGuidance ==
    (Processed /\ out.forwarded /\ out.detects # <<>>
     /\ out.env.detect.kind = "validation") =>
        /\ out.replies = <<Reply(cur.replyToken, Guidance)>>
        /\ Len(out.detects) = 1
        /\ out.status = 0 /\ out.cause = "none"

\* the detection turned the text down and LINE refused the guidance
C22_Witness ==
    /\ Processed /\ out.forwarded /\ out.env.detect.kind = "validation"
    /\ Len(out.detects) = 1 /\ out.env.reply = "refused" /\ out.status = 0
    /\ Len(out.replies) = 1

\* the fixed message of a message that is no text (lines 82, 95, 101)
FixedReply(m) ==
    CASE m.mtype = "image" -> ImageReply
      [] m.mtype = "file" -> FileReply(FileName(m))
      [] OTHER -> UnsupportedReply

\* C23 as stated: for a message of type image, file or any other type that is not text
\* the orchestrator calls no detection, appends nothing and makes exactly one reply
\* call, with the fixed message of that type.
C23_Original ==
    (Processed /\ out.forwarded /\ cur.message.mtype # "text") =>
        /\ out.detects = <<>>
        /\ out.appends = NoAppends
        /\ out.replies = <<Reply(cur.replyToken, FixedReply(cur.message))>>

\* C23 amended: for such a message the orchestrator calls no detection, appends nothing
\* and makes exactly one reply call; the reply is the fixed message of the type, except
\* for an image without id, which gets the generic apology and an error to the caller.
C23_NoAnalysisOfOtherTypes ==
    (Processed /\ out.forwarded /\ cur.message.mtype # "text") =>
        /\ out.detects = <<>>
        /\ out.appends = NoAppends
        /\ IF cur.message.mtype = "image" /\ cur.message.mid = Absent
           THEN /\ out.replies = <<Reply(cur.replyToken, ApologyEvent)>>
                /\ out.status # 0
           ELSE /\ out.replies = <<Reply(cur.replyToken, FixedReply(cur.message))>>
                /\ out.status = 0

\* a file with its name was answered, with a history that stayed as it was
C23_Witness ==
    /\ Processed /\ out.forwarded /\ cur.message.mtype = "file"
    /\ cur.message.fileName = "doc"
    /\ out.replies = <<Reply(cur.replyToken, FileReply("doc"))>>
    /\ history[cur.userId] # <<>>

\* C27: process_event makes at most one reply call with the reply token of the event,
\* whatever the type of the message and whichever of the history store, the detection,
\* the composition and the reply call itself fail.
C27_OneReplyPerToken ==
    (Processed /\ out.forwarded) =>
        \A i, j \in 1..Len(out.replies) :
            out.replies[i].token = out.replies[j].token => i = j

\* the reply composed from a detection result could not be delivered
C27_Witness ==
    /\ Processed /\ out.forwarded /\ out.env.reply = "unreachable"
    /\ out.env.store = "ok" /\ out.env.detect.kind = "result"
    /\ cur.message.mtype = "text" /\ cur.message.text # Absent
    /\ Len(out.replies) = 1 /\ out.status = 0

-----------------------------------------------------------------------------
(* Deliveries one after the other, each in a body of its own, with the record of    *)
(* what _process_event did with each of them: events holds the deliveries so far,   *)
(* log what each of them did.                                                       *)

\* the redelivery of a text message and its original with the reply token, the same
\* redelivery without type, an event with another id, a text message without id and
\* its redelivery
DeliveredEvents ==
    {Event(1, "message", TRUE, Absent, "u1", Msg("text", "a", Absent, Absent)),
     Event(1, "message", FALSE, "tk", "u1", Msg("text", "a", Absent, Absent)),
     Event(1, Absent, TRUE, Absent, Absent, NoMessage),
     Event(2, "follow", TRUE, Absent, Absent, NoMessage),
     Event(NoId, "message", FALSE, "tk", "u2", Msg("text", "b", Absent, Absent)),
     Event(NoId, "message", TRUE, Absent, "u2", Msg("text", "b", Absent, Absent))}

\* what one delivery did: c and h are the cache and the history it found
Delivered(e, c, h, env, r) ==
    [event |-> e, before |-> c, full |-> Cardinality(c) >= CacheCap, env |-> env,
     path |-> r.path, forwarded |-> r.forwarded, replies |-> r.replies,
     appends |-> Appends(h, r.history), status |-> r.status, cache |-> r.cache]

InitDeliveries ==
    /\ cache = {}
    /\ history = [u \in Users |-> <<>>]
    /\ replied = {}
    /\ appended = {}
    /\ pc = "deliveries"
    /\ batchLen = 1
    /\ idx = 0
    /\ response = NoResponse
    /\ cur = NoEvent
    /\ out = NoOut
    /\ dr = DefaultDetection
    /\ composed = <<>>
    /\ tpc = [t \in Threads |-> "off"]
    /\ tev = [t \in Threads |-> NoEvent]
    /\ tout = [t \in Threads |-> NoThreadOut]
    /\ client = NoClient
    /\ strategy = "none"
    /\ analysis = NoAnalysis
    /\ unformatted = NoRaw
    /\ formatted = NoFormatted
    /\ message_text = <<>>
    /\ keyword_result = NoKeywordResult
    /\ events = <<>>
    /\ log = <<>>

\* handle_webhook on a body with the one event e: _process_event(e), lines 95-96
Deliver ==
    /\ pc = "deliveries" /\ Len(events) < MaxDeliveries
    /\ \E e \in DeliveredEvents : \E env \in EnvsFor(e) :
        \E r \in Dispatch(cache, history, e, env) :
            /\ cache' = r.cache
            /\ history' = r.history
            /\ events' = Append(events, e)
            /\ log' = Append(log, Delivered(e, cache, history, env, r))
    /\ UNCHANGED <<replied, appended, pc, batchLen, idx, response, cur, out, dr,
                   composed, tpc, tev, tout, client, strategy, analysis, unformatted,
                   formatted, message_text, keyword_result>>

SpecDeliveries == InitDeliveries /\ [][Deliver]_vars

\* the delivery at position p is the first one with its event id
FirstOfItsId(p) ==
    /\ events[p].id # NoId
    /\ \A q \in 1..(p - 1) : events[q].id # events[p].id

\* the delivery at position q has the id of the one at p and comes after it
LaterDelivery(p, q) == q > p /\ events[q].id = events[p].id

\* the id of the delivery at p was in the cache after every delivery from p up to q
StayedCached(p, q) == \A k \in p..(q - 1) : events[p].id \in log[k].cache

\* C31 as stated: if the first delivery with an event id is a redelivery, no reply is
\* ever sent for that event id.
C31_Original ==
    \A p \in 1..Len(events) :
        (FirstOfItsId(p) /\ events[p].isRedelivery) =>
            \A q \in p..Len(events) :
                events[q].id = events[p].id => log[q].replies = <<>>

\* C31 amended: if the first delivery with an event id is a redelivery, that delivery
\* sends no reply and records the id (it is in the cache afterwards unless the cache
\* was at its cap), and every later delivery with that id, the original with its
\* reply token included, is skipped without reply and without append as long as the
\* id has stayed in the cache.
C31_NoReplyWhileCached ==
    \A p \in 1..Len(events) :
        (FirstOfItsId(p) /\ events[p].isRedelivery) =>
            /\ log[p].replies = <<>>
            /\ log[p].path = "redelivery"
            /\ ~log[p].full => events[p].id \in log[p].cache
            /\ \A q \in 1..Len(events) :
                (LaterDelivery(p, q) /\ StayedCached(p, q)) =>
                    /\ log[q].path = "skipped"
                    /\ log[q].replies = <<>>
                    /\ log[q].appends = NoAppends

\* the redelivery came first, the original with its reply token came second and was
\* skipped
C31_Witness ==
    /\ Len(events) >= 2
    /\ events[1].id = 1 /\ events[1].isRedelivery /\ events[1].type = "message"
    /\ events[2].id = 1 /\ ~events[2].isRedelivery /\ events[2].replyToken = "tk"
    /\ log[1].path = "redelivery" /\ log[1].appends # NoAppends
    /\ log[2].path = "skipped" /\ log[2].replies = <<>>

\* the collaborators of the delivery at position p worked
Worked(p) == log[p].env.store = "ok" /\ log[p].env.detect.kind \in {"result", "error"}

\* C33: the cache holds non-empty event ids only: an event without event id (absent
\* or empty) is not recorded and never skipped, whatever was delivered before, so
\* each of its deliveries is processed in full; a fresh text message without id is
\* answered at each of its deliveries.
C33_EmptyIdNeverRecorded ==
    /\ NoId \notin cache
    /\ \A p \in 1..Len(events) :
        events[p].id = NoId =>
            /\ log[p].cache = log[p].before
            /\ log[p].path = (IF events[p].isRedelivery THEN "redelivery" ELSE "fresh")
            /\ ~events[p].isRedelivery =>
                    /\ log[p].forwarded
                    /\ Worked(p) => Len(log[p].replies) = 1
            /\ (events[p].isRedelivery /\ log[p].env.store = "ok") =>
                    log[p].appends # NoAppends

\* the same fresh text message without id was delivered twice and answered twice
C33_Witness ==
    /\ Len(events) >= 2
    /\ events[1] = events[2] /\ events[1].id = NoId /\ ~events[1].isRedelivery
    /\ Len(log[1].replies) = 1 /\ Len(log[2].replies) = 1
    /\ log[1].status = 0 /\ log[2].status = 0

====
